---------------------------- MODULE Spec2Model ----------------------------
(***************************************************************************)
(* Badge validator / formatter (src/index.ts).                             *)
(*                                                                         *)
(* One CLI run reads an image file and either validates it (--check:       *)
(* format, dimensions, circularity, mood) or masks it with a disc and      *)
(* writes output.png.                                                      *)
(*                                                                         *)
(* Number representation.  width and height are positive integers, so      *)
(*   radius*radius - (y - cy)*(y - cy)  =  Disc(width, height, y) / 4      *)
(* with Disc an integer, and Math.sqrt of it is Root/2 when Disc is a      *)
(* perfect square, irrational when it is not, and NaN when Disc < 0.       *)
(* The float loop variable x of the scanline loops is therefore            *)
(*   - NaN (no iteration: every comparison with NaN is false),             *)
(*   - a multiple of 1/2 (kept here as X2 = 2*x, an integer), or           *)
(*   - irrational plus an integer: for sides up to 513 its distance to     *)
(*     the nearest multiple of 1/4 is above 1e-4, the rounding error of    *)
(*     the doubles is below 1e-9, so (y*width + x)*4 + 3 is never an       *)
(*     integer: a read of a Buffer at such an index yields undefined       *)
(*     (undefined > 50 is false) and a write to it is ignored.             *)
(* Comparisons of an integer with cx -/+ sqrt(..) are made exactly, by     *)
(* squaring.                                                               *)
(***************************************************************************)
EXTENDS Integers, Sequences, FiniteSets

VARIABLES file, check, pc, stages, stdout, stderr, output, mask, run,
          color, verdict

vars == <<file, check, pc, stages, stdout, stderr, output, mask, run,
          color, verdict>>

runVars == <<file, check, pc, stages, stdout, stderr, output, mask, run>>

---------------------------------------------------------------------------
(* Program constants *)

ALPHA_OFFSET == 3

RGBA_CHANNELS == 4

\* metadata.width > 512 || metadata.height > 512
MaxDim == 512

\* rawImage[...] > 50
AlphaThreshold == 50

\* circle[idx + ALPHA_OFFSET] = 255
Opaque == 255

\* r /= 255
ChannelMax == 255

happyHueMin == 50

happyHueMax == 220

\* 0.5, 0.6, and the weights 0.7, 0.2, 0.1 and the threshold 0.6, in tenths
minSaturation == 5

minLightness == 6

weightHue == 7

weightSaturation == 2

weightLightness == 1

threshold == 6

---------------------------------------------------------------------------
(* Bounds of the model *)

\* sides of the small images, whose every pixel position is enumerated
MaxSide == 5

\* channel values 0..MaxLowChan of the colours given to isHappyColorHSL
MaxLowChan == 6

---------------------------------------------------------------------------
(* Arithmetic helpers *)

Min(a, b) == IF a < b THEN a ELSE b

Max(a, b) == IF a > b THEN a ELSE b

RECURSIVE IsqrtIn(_, _, _)
\* the largest k in lo..hi with k*k <= n (lo*lo <= n)
IsqrtIn(n, lo, hi) ==
  IF lo >= hi THEN lo
  ELSE LET mid == (lo + hi + 1) \div 2
       IN IF mid * mid <= n THEN IsqrtIn(n, mid, hi) ELSE IsqrtIn(n, lo, mid - 1)

\* the integer square root of n, known to be at most hi
Isqrt(n, hi) == IsqrtIn(n, 0, hi)

---------------------------------------------------------------------------
(* Circle geometry, as both createCircularMask and checkIfCircular compute *)
(* it: radius = min(width, height)/2, cx = width/2, cy = height/2.         *)

\* 4 * (radius*radius - (y - cy)*(y - cy))
Disc(width, height, y) ==
  LET m == Min(width, height)
  IN m * m - (2 * y - height) * (2 * y - height)

\* Math.sqrt(radius*radius - (y-cy)*(y-cy)) is NaN
RowNaN(width, height, y) == Disc(width, height, y) < 0

\* 2 * Math.sqrt(..) rounded down; equal to it when RowExact
Root(width, height, y) == Isqrt(Disc(width, height, y), Min(width, height))

RowExact(width, height, y) ==
  /\ ~RowNaN(width, height, y)
  /\ Root(width, height, y) * Root(width, height, y) = Disc(width, height, y)

\* byte offset (y*width + x)*RGBA_CHANNELS + ALPHA_OFFSET for x = X2/2
OffsetOf(width, y, X2) ==
  y * width * RGBA_CHANNELS + X2 * (RGBA_CHANNELS \div 2) + ALPHA_OFFSET

---------------------------------------------------------------------------
(* Buffers.  A decoded image is kept as its pixels: all equal to base,     *)
(* except pixel number spot (row-major), which is spotPx.  A pixel is      *)
(* <<r, g, b, a>>.                                                         *)

ImageBuf(width, height, base, spot, spotPx) ==
  [kind |-> "image", len |-> width * height * RGBA_CHANNELS,
   base |-> base, spot |-> spot, spotPx |-> spotPx]

\* Buffer.alloc(width * height * RGBA_CHANNELS, 0) with the bytes in set
\* written to 255
MaskBuf(len, set) == [kind |-> "mask", len |-> len, set |-> set]

ImageByte(b, i) ==
  IF i \div RGBA_CHANNELS = b.spot
  THEN b.spotPx[(i % RGBA_CHANNELS) + 1]
  ELSE b.base[(i % RGBA_CHANNELS) + 1]

MaskByte(b, i) == IF i \in b.set THEN Opaque ELSE 0

\* 'dest-in': the destination's colour, its alpha times the mask's alpha
DestInByte(b, i) ==
  IF i % RGBA_CHANNELS = ALPHA_OFFSET
  THEN (ImageByte(b.dst, i) * MaskByte(b.src, i)) \div Opaque
  ELSE ImageByte(b.dst, i)

\* buffer[i] for an integer index inside the buffer
ByteAt(b, i) ==
  CASE b.kind = "image" -> ImageByte(b, i)
    [] b.kind = "mask" -> MaskByte(b, i)
    [] b.kind = "dest-in" -> DestInByte(b, i)

\* buffer[i] > 50, with buffer[i] undefined outside the buffer
Visible(b, i) == i >= 0 /\ i < b.len /\ ByteAt(b, i) > AlphaThreshold

---------------------------------------------------------------------------
(* createCircularMask *)

\* the offsets written by the inner loop of row y:
\*   for (let x = maxXLeft; x < minXRight; x++) circle[idx + ALPHA_OFFSET] = 255
MaskRowWrites(width, height, y) ==
  IF RowExact(width, height, y)
  THEN LET k == Root(width, height, y)
           len == width * height * RGBA_CHANNELS
       IN { o \in { OffsetOf(width, y, width - k + 2 * j) : j \in 0..(k - 1) } :
              o >= 0 /\ o < len }
  ELSE {}

\* for (let y = 0; y < height; y++): the offsets written by all the rows
MaskRows(width, height) ==
  UNION { MaskRowWrites(width, height, y) : y \in 0..(height - 1) }

createCircularMask(width, height) ==
  MaskBuf(width * height * RGBA_CHANNELS, MaskRows(width, height))

---------------------------------------------------------------------------
(* checkIfCircular *)

\* for (let x = minXLeft; x < maxXLeft; x++): integer x < cx - sqrt(..)
LeftLoopReads(width, height, y) ==
  IF RowNaN(width, height, y) THEN {}
  ELSE { OffsetOf(width, y, 2 * x) : x \in
           { x \in 0..(width - 1) :
               /\ width - 2 * x > 0
               /\ (width - 2 * x) * (width - 2 * x) > Disc(width, height, y) } }

\* for (let x = minXRight; x < maxXRight; x++): x = cx + sqrt(..) + j
RightLoopReads(width, height, y) ==
  IF RowExact(width, height, y)
  THEN LET k == Root(width, height, y)
       IN { OffsetOf(width, y, X2) :
              X2 \in { X2 \in (width + k)..(2 * width - 1) : (X2 - width - k) % 2 = 0 } }
  ELSE {}

RowThrows(rawImage, width, height, y) ==
  \/ \E o \in LeftLoopReads(width, height, y) : Visible(rawImage, o)
  \/ \E o \in RightLoopReads(width, height, y) : Visible(rawImage, o)

\* TRUE when checkIfCircular throws
\* 'Image has non-transparent pixels outside the circle.'
checkIfCircular(rawImage, width, height) ==
  \E y \in 0..(height - 1) : RowThrows(rawImage, width, height, y)

---------------------------------------------------------------------------
(* rgbToHsl and isHappyColorHSL.  h, s and l are kept as exact fractions   *)
(* num/den of the channel integers (the doubles of the code are these      *)
(* values rounded).                                                        *)

rgbToHsl(r, g, b) ==
  LET max == Max(r, Max(g, b))
      min == Min(r, Min(g, b))
      d == max - min
  IN IF max # min
     THEN [h |-> [num |-> 60 * (CASE max = r -> (g - b) + (IF g < b THEN 6 * d ELSE 0)
                                  [] max = g /\ max # r -> (b - r) + 2 * d
                                  [] OTHER -> (r - g) + 4 * d),
                  den |-> d],
           s |-> IF max + min > ChannelMax
                 THEN [num |-> d, den |-> 2 * ChannelMax - max - min]
                 ELSE [num |-> d, den |-> max + min],
           l |-> [num |-> max + min, den |-> 2 * ChannelMax]]
     ELSE [h |-> [num |-> 0, den |-> 1],
           s |-> [num |-> 0, den |-> 1],
           l |-> [num |-> max + min, den |-> 2 * ChannelMax]]

\* h >= happyHueRange.min && h <= happyHueRange.max
HueInRange(hsl) ==
  /\ hsl.h.num >= happyHueMin * hsl.h.den
  /\ hsl.h.num <= happyHueMax * hsl.h.den

SaturationOk(hsl) == 10 * hsl.s.num >= minSaturation * hsl.s.den

LightnessOk(hsl) == 10 * hsl.l.num >= minLightness * hsl.l.den

\* mutant: the weights 0.5, 0.3, 0.2, so that a hue match alone stays below 0.6
isHappyColorHSL_EvenWeights(c) ==
  LET hsl == rgbToHsl(c[1], c[2], c[3])
      hueScore == IF HueInRange(hsl) THEN 1 ELSE 0
      saturationScore == IF SaturationOk(hsl) THEN 1 ELSE 0
      lightnessScore == IF LightnessOk(hsl) THEN 1 ELSE 0
      totalScore == hueScore * (weightHue - 2) + saturationScore * (weightSaturation + 1)
                      + lightnessScore * (weightLightness + 1)
  IN totalScore >= threshold

isHappyColorHSL(c) ==
  LET hsl == rgbToHsl(c[1], c[2], c[3])
      hueScore == IF HueInRange(hsl) THEN 1 ELSE 0
      saturationScore == IF SaturationOk(hsl) THEN 1 ELSE 0
      lightnessScore == IF LightnessOk(hsl) THEN 1 ELSE 0
      totalScore == hueScore * weightHue + saturationScore * weightSaturation
                      + lightnessScore * weightLightness
  IN totalScore >= threshold

---------------------------------------------------------------------------
(* Messages *)

ErrMissing == "File does not exist."

ErrMetadata == "Failed to read image metadata."

ErrFormat == "Image format is not PNG."

ErrDimensions == "Image dimensions exceed 512x512 pixels."

ErrCircular == "Image has non-transparent pixels outside the circle."

ErrMood == "Image does not convey a happy feeling."

MsgValid == "Image is valid, circular, and conveys a happy feeling."

MsgFormatted == "Image is now circular in the output.png file!"

None == [kind |-> "none"]

---------------------------------------------------------------------------
(* Inputs *)

Transparent == <<0, 0, 0, 0>>

TransparentGreen == <<0, 255, 0, 0>>

Solid == <<0, 0, 0, 255>>

Faint == <<0, 0, 0, 50>>

Leak == <<0, 0, 0, 51>>

BasePixels == {Transparent, TransparentGreen, Solid}

SpotPixels == {Faint, Leak, Solid}

\* every small image: uniform, or uniform but for one pixel
SmallBufs ==
  UNION { {ImageBuf(w, h, base, -1, base) : base \in BasePixels}
            \cup {ImageBuf(w, h, base, spot, px) :
                    base \in BasePixels, spot \in 0..(w * h - 1), px \in SpotPixels}
          : w \in 1..MaxSide, h \in 1..MaxSide }

SmallSizes == (1..MaxSide) \X (1..MaxSide)

\* sizes at the dimension bound, with uniform content
LargeSizes ==
  {<<MaxDim, MaxDim>>, <<MaxDim + 1, MaxDim + 1>>, <<MaxDim + 1, 1>>, <<1, MaxDim + 1>>}

\* the dominant colours sharp's stats() reports
Dominants == {<<0, 150, 0>>, <<255, 0, 0>>}

Formats == {"png", "jpeg"}

ImageFile(format, width, height, buf, dominant) ==
  [kind |-> "image", format |-> format, width |-> width, height |-> height,
   buf |-> buf, dominant |-> dominant]

Files ==
  {[kind |-> "missing"]}
    \cup {ImageFile(f, sz[1], sz[2], ImageBuf(sz[1], sz[2], base, spot, px), dom) :
            f \in Formats, dom \in Dominants,
            <<sz, base, spot, px>> \in
              { <<sz, base, spot, px>> \in
                  SmallSizes \X BasePixels \X (-1..(MaxSide * MaxSide - 1)) \X (SpotPixels \cup BasePixels) :
                    /\ spot < sz[1] * sz[2]
                    /\ (spot = -1) = (px = base) } }
    \cup {ImageFile(f, sz[1], sz[2], ImageBuf(sz[1], sz[2], base, -1, base), dom) :
            f \in Formats, dom \in Dominants, sz \in LargeSizes,
            base \in {Transparent, Solid}}

\* channel values of the colours classified on their own
ChanVals == (0..MaxLowChan) \cup {150, 255}

---------------------------------------------------------------------------
(* One CLI run: program.action *)

Init ==
  /\ file \in Files
  /\ check \in BOOLEAN
  /\ pc = "start"
  /\ stages = <<>>
  /\ stdout = ""
  /\ stderr = ""
  /\ output = None
  /\ mask = None
  /\ run = 1
  /\ color = <<0, 0, 0>>
  /\ verdict = "none"

\* catch (error) { console.error(`Validation failed: ${error.message}`) }
Fail(msg) ==
  /\ stderr' = msg
  /\ pc' = "done"

\* if (!fs.existsSync(filepath)) throw
Exists ==
  /\ pc = "start"
  /\ IF file.kind = "missing"
     THEN Fail(ErrMissing)
     ELSE pc' = "decode" /\ stderr' = stderr
  /\ UNCHANGED <<file, check, stages, stdout, output, mask, run, color, verdict>>

\* mutant: the branch on options.check inverted
Decode_Inverted ==
  /\ pc = "decode"
  /\ IF file.width = 0 \/ file.height = 0
     THEN Fail(ErrMetadata)
     ELSE /\ pc' = IF check THEN "mask" ELSE "format"
          /\ stderr' = stderr
  /\ UNCHANGED <<file, check, stages, stdout, output, mask, run, color, verdict>>

\* image.png().toBuffer(), image.metadata(), then the branch on options.check
Decode ==
  /\ pc = "decode"
  /\ IF file.width = 0 \/ file.height = 0
     THEN Fail(ErrMetadata)
     ELSE /\ pc' = IF check THEN "format" ELSE "mask"
          /\ stderr' = stderr
  /\ UNCHANGED <<file, check, stages, stdout, output, mask, run, color, verdict>>

\* if (metadata.format !== 'png') throw
FormatCheck ==
  /\ pc = "format"
  /\ stages' = Append(stages, "format")
  /\ IF file.format # "png"
     THEN Fail(ErrFormat)
     ELSE pc' = "dimension" /\ stderr' = stderr
  /\ UNCHANGED <<file, check, stdout, output, mask, run, color, verdict>>

\* mutant: && in place of ||
DimensionsExceed_Both(width, height) == width > MaxDim /\ height > MaxDim

\* metadata.width > 512 || metadata.height > 512
DimensionsExceed(width, height) == width > MaxDim \/ height > MaxDim

\* checkImage: the dimension check
DimCheck ==
  /\ pc = "dimension"
  /\ stages' = Append(stages, "dimension")
  /\ IF DimensionsExceed(file.width, file.height)
     THEN Fail(ErrDimensions)
     ELSE pc' = "circularity" /\ stderr' = stderr
  /\ UNCHANGED <<file, check, stdout, output, mask, run, color, verdict>>

\* mutant: the non-circular error is reported without leaving checkImage
CircCheck_NoThrow ==
  /\ pc = "circularity"
  /\ stages' = Append(stages, "circularity")
  /\ stderr' = IF checkIfCircular(file.buf, file.width, file.height)
               THEN ErrCircular ELSE stderr
  /\ pc' = "mood"
  /\ UNCHANGED <<file, check, stdout, output, mask, run, color, verdict>>

\* checkImage: await checkIfCircular(imageBuffer, width, height)
CircCheck ==
  /\ pc = "circularity"
  /\ stages' = Append(stages, "circularity")
  /\ IF checkIfCircular(file.buf, file.width, file.height)
     THEN Fail(ErrCircular)
     ELSE pc' = "mood" /\ stderr' = stderr
  /\ UNCHANGED <<file, check, stdout, output, mask, run, color, verdict>>

\* sharp(imageBuffer).stats() gives the dominant colour
detectHappiness(f) == isHappyColorHSL(f.dominant)

\* checkImage: the mood check and the success message
MoodCheck ==
  /\ pc = "mood"
  /\ stages' = Append(stages, "mood")
  /\ IF ~detectHappiness(file)
     THEN Fail(ErrMood) /\ stdout' = stdout
     ELSE pc' = "done" /\ stdout' = MsgValid /\ stderr' = stderr
  /\ UNCHANGED <<file, check, output, mask, run, color, verdict>>

\* const circleMask = await createCircularMask(width, height, false)
MakeMask ==
  /\ pc = "mask"
  /\ mask' = createCircularMask(file.width, file.height)
  /\ pc' = "composite"
  /\ UNCHANGED <<file, check, stages, stdout, stderr, output, run, color, verdict>>

\* sharp(imageBuffer).composite([{input: circleMask, blend: 'dest-in'}]).png()
Composed(f, m) ==
  [kind |-> "dest-in", len |-> f.buf.len, dst |-> f.buf, src |-> m]

\* ... .toFile('output.png') and the message
Composite ==
  /\ pc = "composite"
  /\ output' = ImageFile("png", file.width, file.height, Composed(file, mask), file.dominant)
  /\ stdout' = MsgFormatted
  /\ pc' = "done"
  /\ UNCHANGED <<file, check, stages, stderr, mask, run, color, verdict>>

\* the user runs the tool again, with --check, on the output.png just written
CheckOutput ==
  /\ pc = "done"
  /\ run = 1
  /\ output # None
  /\ \E dom \in Dominants : file' = [output EXCEPT !.dominant = dom]
  /\ check' = TRUE
  /\ run' = 2
  /\ pc' = "start"
  /\ stages' = <<>>
  /\ stdout' = ""
  /\ stderr' = ""
  /\ UNCHANGED <<output, mask, color, verdict>>

Next ==
  \/ Exists
  \/ Decode
  \/ FormatCheck
  \/ DimCheck
  \/ CircCheck
  \/ MoodCheck
  \/ MakeMask
  \/ Composite
  \/ CheckOutput

Spec == Init /\ [][Next]_vars

---------------------------------------------------------------------------
(* The colour classifier on its own *)

InitColor ==
  /\ file = [kind |-> "missing"]
  /\ check = FALSE
  /\ pc = "color"
  /\ stages = <<>>
  /\ stdout = ""
  /\ stderr = ""
  /\ output = None
  /\ mask = None
  /\ run = 1
  /\ color \in ChanVals \X ChanVals \X ChanVals
  /\ verdict = "none"

Classify ==
  /\ pc = "color"
  /\ verdict' = IF isHappyColorHSL(color) THEN "happy" ELSE "not happy"
  /\ pc' = "classified"
  /\ UNCHANGED <<file, check, stages, stdout, stderr, output, mask, run, color>>

NextColor == Classify

SpecColor == InitColor /\ [][NextColor]_vars

---------------------------------------------------------------------------
(* The circle as the specification states it: pixel (x, y) is inside when  *)
(* left(y) <= x < right(y), left(y) = cx - sqrt(radius^2 - (y - cy)^2),    *)
(* right(y) = cx + sqrt(radius^2 - (y - cy)^2); a row whose                *)
(* radius^2 - (y - cy)^2 is negative has no inside pixel.                  *)

BelowLeft(width, height, x, y) ==
  /\ width - 2 * x > 0
  /\ (width - 2 * x) * (width - 2 * x) > Disc(width, height, y)

AtOrAboveRight(width, height, x, y) ==
  /\ 2 * x - width >= 0
  /\ (2 * x - width) * (2 * x - width) >= Disc(width, height, y)

InsideCircle(width, height, x, y) ==
  /\ Disc(width, height, y) >= 0
  /\ ~BelowLeft(width, height, x, y)
  /\ ~AtOrAboveRight(width, height, x, y)

AlphaAt(buf, width, x, y) ==
  ByteAt(buf, (y * width + x) * RGBA_CHANNELS + ALPHA_OFFSET)

\* some pixel outside the circle has alpha > 50
LeaksOutside(f) ==
  \E y \in 0..(f.height - 1) : \E x \in 0..(f.width - 1) :
    /\ ~InsideCircle(f.width, f.height, x, y)
    /\ AlphaAt(f.buf, f.width, x, y) > AlphaThreshold

\* the circularity stage of a --check run has been evaluated
CircularityEvaluated ==
  /\ check
  /\ file.kind = "image"
  /\ Len(stages) >= 3

---------------------------------------------------------------------------
(* C1: whenever a decoded image of width and height <= 512 has a pixel     *)
(* outside the circle with alpha > 50, checkIfCircular fails with 'Image   *)
(* has non-transparent pixels outside the circle.': no such image passes   *)
(* the circularity stage.                                                  *)
C1_LeakRejected ==
  (CircularityEvaluated /\ LeaksOutside(file)) => stderr = ErrCircular

(* C2: the buffer built by createCircularMask has alpha 255 at pixel       *)
(* (x, y) exactly when x is an integer column with left(y) <= x <          *)
(* right(y), and alpha 0 at every other pixel.                             *)
C2_MaskIsInterval ==
  mask # None =>
    \A y \in 0..(file.height - 1) : \A x \in 0..(file.width - 1) :
      AlphaAt(mask, file.width, x, y) =
        IF InsideCircle(file.width, file.height, x, y) THEN Opaque ELSE 0

(* C9: every red, green and blue byte of the buffer built by               *)
(* createCircularMask is 0 after the scanline loop.                        *)
C9_MaskColourZero ==
  mask # None =>
    \A i \in 0..(mask.len - 1) :
      i % RGBA_CHANNELS # ALPHA_OFFSET => ByteAt(mask, i) = 0

(* C10: checkIfCircular never rejects an image whose pixels outside the    *)
(* circle all have alpha <= 50: colour bytes and the alpha of inside       *)
(* pixels cannot cause the non-circular error.                             *)
C10_CleanAccepted ==
  (CircularityEvaluated /\ ~LeaksOutside(file)) => stderr # ErrCircular

(* C5: round trip: a --check run on the output.png that the format path    *)
(* wrote for a source of width and height <= 512 passes the circularity    *)
(* stage: it can fail only at the mood stage.                              *)
C5_RoundTrip ==
  (run = 2 /\ pc = "done" /\ file.width <= MaxDim /\ file.height <= MaxDim)
    => stderr \in {"", ErrMood}

\* the source image has alpha 255 everywhere
FullyOpaque(f) ==
  /\ f.buf.base[ALPHA_OFFSET + 1] = Opaque
  /\ f.buf.spot # -1 => f.buf.spotPx[ALPHA_OFFSET + 1] = Opaque

(* C6: the output.png of a fully opaque square image of side W has alpha 0 *)
(* at its four corners and alpha 255 at its centre (W div 2, W div 2).     *)
(* Stated for W >= 3: for W = 1 and W = 2 the centre pixel is itself a     *)
(* corner.                                                                 *)
C6_CornersAndCentre ==
  (run = 1 /\ output # None /\ file.width = file.height /\ file.width >= 3
     /\ FullyOpaque(file))
    => LET W == file.width
       IN /\ \A x \in {0, W - 1} : \A y \in {0, W - 1} :
               AlphaAt(output.buf, W, x, y) = 0
          /\ AlphaAt(output.buf, W, W \div 2, W \div 2) = Opaque

(* C3: a --check run on an existing, decodable file evaluates the stages   *)
(* in the order format, dimension, circularity, mood; it reports the error *)
(* of the first stage that fails, evaluates no later stage, and prints the *)
(* success message exactly when all four pass.                             *)
C3_StageOrder ==
  (pc = "done" /\ check /\ file.kind = "image") =>
    LET fmt == file.format = "png"
        dim == fmt /\ file.width <= MaxDim /\ file.height <= MaxDim
        circ == dim /\ ~checkIfCircular(file.buf, file.width, file.height)
        mood == circ /\ isHappyColorHSL(file.dominant)
    IN /\ stages = IF ~fmt THEN <<"format">>
                   ELSE IF ~dim THEN <<"format", "dimension">>
                   ELSE IF ~circ THEN <<"format", "dimension", "circularity">>
                   ELSE <<"format", "dimension", "circularity", "mood">>
       /\ stderr = IF ~fmt THEN ErrFormat
                   ELSE IF ~dim THEN ErrDimensions
                   ELSE IF ~circ THEN ErrCircular
                   ELSE IF ~mood THEN ErrMood
                   ELSE ""
       /\ (stdout = MsgValid) = mood
       /\ ~mood => stdout = ""

\* a run where two stages would fail reports the earlier one
C3_Witness ==
  /\ pc = "done"
  /\ check
  /\ file.kind = "image"
  /\ stderr = ErrCircular
  /\ ~isHappyColorHSL(file.dominant)
  /\ stages = <<"format", "dimension", "circularity">>

(* C7: the dimension check passes exactly when width <= 512 and            *)
(* height <= 512; otherwise the run fails with 'Image dimensions exceed    *)
(* 512x512 pixels.' before any circularity or mood check.                  *)
C7_DimensionCheck ==
  (check /\ file.kind = "image" /\ Len(stages) >= 2) =>
    LET over == file.width > 512 \/ file.height > 512
    IN /\ (stderr = ErrDimensions) = over
       /\ over => /\ pc = "done"
                  /\ stages = <<"format", "dimension">>
                  /\ stdout = ""
       /\ ~over => pc # "dimension" /\ (pc = "done" => Len(stages) >= 3)

\* a 512x512 image has passed the dimension check
C7_Witness ==
  /\ check
  /\ file.kind = "image"
  /\ file.width = 512
  /\ file.height = 512
  /\ pc = "circularity"
  /\ stderr = ""

(* C8: a run with --check never writes output.png and never modifies the   *)
(* input file; output.png is written only by a run without --check, which  *)
(* evaluates no validation stage and writes output.png for every existing  *)
(* decodable input, whatever its format and size.                          *)
C8_CheckNeverWrites ==
  /\ [][/\ check => output' = output
        /\ pc # "done" => file' = file
        /\ output' # output => (~check /\ stages = <<>> /\ stages' = <<>>)]_vars
  /\ [](pc = "done" /\ ~check /\ file.kind = "image"
          => /\ output # None
             /\ output.format = "png"
             /\ stages = <<>>
             /\ stderr = ""
             /\ stdout = MsgFormatted)

\* an oversize JPEG has been formatted
C8_Witness ==
  /\ pc = "done"
  /\ ~check
  /\ file.kind = "image"
  /\ file.format = "jpeg"
  /\ file.width > MaxDim
  /\ output # None

(* C4: isHappyColorHSL is true exactly when the hue computed by rgbToHsl   *)
(* lies in [50, 220]; no grey is happy, (0,150,0) is happy and (255,0,0)   *)
(* is not.                                                                 *)
C4_HappyIffHue ==
  pc = "classified" =>
    LET hsl == rgbToHsl(color[1], color[2], color[3])
        inRange == 50 * hsl.h.den <= hsl.h.num /\ hsl.h.num <= 220 * hsl.h.den
    IN /\ (verdict = "happy") = inRange
       /\ verdict \in {"happy", "not happy"}
       /\ (color[1] = color[2] /\ color[2] = color[3]) => verdict = "not happy"
       /\ color = <<0, 150, 0>> => verdict = "happy"
       /\ color = <<255, 0, 0>> => verdict = "not happy"

\* a colour outside the hue range that satisfies both other rules
C4_Witness ==
  /\ pc = "classified"
  /\ verdict = "not happy"
  /\ SaturationOk(rgbToHsl(color[1], color[2], color[3]))
  /\ LightnessOk(rgbToHsl(color[1], color[2], color[3]))

=============================================================================
